---- MODULE Spec2Model ----
(***************************************************************************)
(* Model of ui/main_window.py: the history store (SQLite table / flat JSON *)
(* file behind the USE_SQLITE flag), the request cycle run by              *)
(* _send_request_thread on a worker thread, and the handlers of the        *)
(* interactive thread that touch either.                                   *)
(*                                                                         *)
(* Text is a sequence of one-character strings.  A Python value is a       *)
(* record [t, s, items]: t is its type ("null" for None, "bool", "num",    *)
(* "str", "list", "dict"), s the characters of a scalar, items the         *)
(* elements of a list or the key,value,key,value... of a dict.             *)
(***************************************************************************)
EXTENDS Integers, Sequences, FiniteSets, TLC

----------------------------------------------------------------------------
(* Python values *)

VNull == [t |-> "null", s |-> <<>>, items |-> <<>>]
VBool(cs) == [t |-> "bool", s |-> cs, items |-> <<>>]
VNum(cs) == [t |-> "num", s |-> cs, items |-> <<>>]
VStr(cs) == [t |-> "str", s |-> cs, items |-> <<>>]
VList(xs) == [t |-> "list", s |-> <<>>, items |-> xs]
VDict(kvs) == [t |-> "dict", s |-> <<>>, items |-> kvs]

\* isinstance(v, (dict, list))
IsStructured(v) == v.t \in {"dict", "list"}

\* isinstance(v, dict)
IsDict(v) == v.t = "dict"

\* Python truthiness of a value: None, False, 0, "", [] and {} are falsy
Truthy(v) ==
    CASE v.t = "null" -> FALSE
      [] v.t = "bool" -> v.s = <<"t", "r", "u", "e">>
      [] v.t = "num" -> v.s # <<"0">>
      [] v.t = "str" -> v.s # <<>>
      [] OTHER -> v.items # <<>>

----------------------------------------------------------------------------
(* Text helpers *)

Digits == {"0", "1", "2"}
WS == {" ", "\n"}

RECURSIVE LStrip(_)
LStrip(s) == IF s # <<>> /\ Head(s) \in WS THEN LStrip(Tail(s)) ELSE s

RECURSIVE RStrip(_)
RStrip(s) ==
    IF s # <<>> /\ s[Len(s)] \in WS THEN RStrip(SubSeq(s, 1, Len(s) - 1)) ELSE s

\* str.strip()
Strip(s) == RStrip(LStrip(s))

\* s[i:i+Len(lit)] == lit
Matches(s, i, lit) ==
    /\ i + Len(lit) - 1 <= Len(s)
    /\ SubSeq(s, i, i + Len(lit) - 1) = lit

RECURSIVE Join(_, _)
\* sep.join(parts) for a sequence of texts
Join(parts, sep) ==
    IF parts = <<>> THEN <<>>
    ELSE IF Len(parts) = 1 THEN parts[1]
    ELSE parts[1] \o sep \o Join(Tail(parts), sep)

----------------------------------------------------------------------------
(* json.loads: a recursive-descent scanner over the JSON subset of         *)
(* objects, arrays, strings without escapes, non-negative integers and the *)
(* literals true, false and null, with blanks as the only whitespace.      *)

Fail == [ok |-> FALSE, v |-> VNull, i |-> 0]
Ok(v, i) == [ok |-> TRUE, v |-> v, i |-> i]

RECURSIVE SkipWs(_, _)
SkipWs(s, i) == IF i <= Len(s) /\ s[i] \in WS THEN SkipWs(s, i + 1) ELSE i

RECURSIVE DigitsEnd(_, _)
\* the index after the run of digits that starts at i
DigitsEnd(s, i) == IF i <= Len(s) /\ s[i] \in Digits THEN DigitsEnd(s, i + 1) ELSE i

RECURSIVE QuoteAt(_, _)
\* the index of the first quote at or after i, 0 when there is none
QuoteAt(s, i) ==
    IF i > Len(s) THEN 0 ELSE IF s[i] = "\"" THEN i ELSE QuoteAt(s, i + 1)

\* s[i] is the opening quote
ParseString(s, i) ==
    LET j == QuoteAt(s, i + 1)
    IN  IF j = 0 THEN Fail ELSE Ok(VStr(SubSeq(s, i + 1, j - 1)), j + 1)

\* s[i] is a digit; a leading 0 is a number by itself
ParseNumber(s, i) ==
    LET j == IF s[i] = "0" THEN i + 1 ELSE DigitsEnd(s, i)
    IN  Ok(VNum(SubSeq(s, i, j - 1)), j)

RECURSIVE PutKey(_, _, _, _)
\* d[k] = v on the key,value sequence of a dict: a repeated key keeps its
\* place and takes the later value
PutKey(kvs, k, v, n) ==
    IF n > Len(kvs) THEN kvs \o <<k, v>>
    ELSE IF kvs[n] = k THEN [kvs EXCEPT ![n + 1] = v]
    ELSE PutKey(kvs, k, v, n + 2)

RECURSIVE ParseValue(_, _)
RECURSIVE ParseElems(_, _, _)
RECURSIVE ParseMembers(_, _, _)

\* the elements of an array from i (whitespace before i already skipped)
ParseElems(s, i, acc) ==
    LET r == ParseValue(s, i)
        j == SkipWs(s, r.i)
    IN  IF ~r.ok \/ j > Len(s) THEN Fail
        ELSE IF s[j] = "]" THEN Ok(VList(Append(acc, r.v)), j + 1)
        ELSE IF s[j] = "," THEN ParseElems(s, SkipWs(s, j + 1), Append(acc, r.v))
        ELSE Fail

\* the members of an object from i (whitespace before i already skipped)
ParseMembers(s, i, acc) ==
    IF i > Len(s) \/ s[i] # "\"" THEN Fail
    ELSE
      LET k == ParseString(s, i)
          c == SkipWs(s, k.i)
      IN  IF ~k.ok \/ c > Len(s) \/ s[c] # ":" THEN Fail
          ELSE
            LET r == ParseValue(s, SkipWs(s, c + 1))
                j == SkipWs(s, r.i)
            IN  IF ~r.ok \/ j > Len(s) THEN Fail
                ELSE IF s[j] = "}" THEN Ok(VDict(PutKey(acc, k.v, r.v, 1)), j + 1)
                ELSE IF s[j] = ","
                     THEN ParseMembers(s, SkipWs(s, j + 1), PutKey(acc, k.v, r.v, 1))
                ELSE Fail

ParseValue(s, i) ==
    IF i > Len(s) THEN Fail
    ELSE IF s[i] = "\"" THEN ParseString(s, i)
    ELSE IF s[i] = "{" THEN
        LET j == SkipWs(s, i + 1)
        IN  IF j <= Len(s) /\ s[j] = "}" THEN Ok(VDict(<<>>), j + 1)
            ELSE ParseMembers(s, j, <<>>)
    ELSE IF s[i] = "[" THEN
        LET j == SkipWs(s, i + 1)
        IN  IF j <= Len(s) /\ s[j] = "]" THEN Ok(VList(<<>>), j + 1)
            ELSE ParseElems(s, j, <<>>)
    ELSE IF Matches(s, i, <<"n", "u", "l", "l">>) THEN Ok(VNull, i + 4)
    ELSE IF Matches(s, i, <<"t", "r", "u", "e">>)
         THEN Ok(VBool(<<"t", "r", "u", "e">>), i + 4)
    ELSE IF Matches(s, i, <<"f", "a", "l", "s", "e">>)
         THEN Ok(VBool(<<"f", "a", "l", "s", "e">>), i + 5)
    ELSE IF s[i] \in Digits THEN ParseNumber(s, i)
    ELSE Fail

\* json.loads(s): [ok, v]; ok = FALSE stands for the JSONDecodeError
JsonLoads(s) ==
    LET r == ParseValue(s, SkipWs(s, 1))
    IN  IF r.ok /\ SkipWs(s, r.i) = Len(s) + 1
        THEN [ok |-> TRUE, v |-> r.v]
        ELSE [ok |-> FALSE, v |-> VNull]

----------------------------------------------------------------------------
(* json.dumps with the default separators (", " and ": ") *)

RECURSIVE JsonDumps(_)
RECURSIVE DumpElems(_)
RECURSIVE DumpMembers(_)

DumpElems(xs) ==
    IF xs = <<>> THEN <<>>
    ELSE <<JsonDumps(xs[1])>> \o DumpElems(Tail(xs))

DumpMembers(kvs) ==
    IF kvs = <<>> THEN <<>>
    ELSE <<JsonDumps(kvs[1]) \o <<":", " ">> \o JsonDumps(kvs[2])>>
         \o DumpMembers(Tail(Tail(kvs)))

JsonDumps(v) ==
    CASE v.t = "null" -> <<"n", "u", "l", "l">>
      [] v.t = "bool" -> v.s
      [] v.t = "num" -> v.s
      [] v.t = "str" -> <<"\"">> \o v.s \o <<"\"">>
      [] v.t = "list" -> <<"[">> \o Join(DumpElems(v.items), <<",", " ">>) \o <<"]">>
      [] OTHER -> <<"{">> \o Join(DumpMembers(v.items), <<",", " ">>) \o <<"}">>

\* str(v) of a scalar: the text itself, None, True, False, or the digits
PyStr(v) ==
    CASE v.t = "null" -> <<"N", "o", "n", "e">>
      [] v.t = "bool" -> IF Truthy(v) THEN <<"T", "r", "u", "e">>
                         ELSE <<"F", "a", "l", "s", "e">>
      [] OTHER -> v.s

(* json.dumps(v, indent=2): one element per line, "," and ": " separators *)

RECURSIVE Spaces(_)
Spaces(n) == IF n = 0 THEN <<>> ELSE <<" ">> \o Spaces(n - 1)

\* indent=2
INDENT == 2

NewLine(level) == <<"\n">> \o Spaces(INDENT * level)

RECURSIVE JsonDumpsIndent(_, _)
RECURSIVE DumpElemsIndent(_, _)
RECURSIVE DumpMembersIndent(_, _)

DumpElemsIndent(xs, level) ==
    IF xs = <<>> THEN <<>>
    ELSE <<JsonDumpsIndent(xs[1], level)>> \o DumpElemsIndent(Tail(xs), level)

DumpMembersIndent(kvs, level) ==
    IF kvs = <<>> THEN <<>>
    ELSE <<JsonDumps(kvs[1]) \o <<":", " ">> \o JsonDumpsIndent(kvs[2], level)>>
         \o DumpMembersIndent(Tail(Tail(kvs)), level)

JsonDumpsIndent(v, level) ==
    IF ~IsStructured(v) THEN JsonDumps(v)
    ELSE IF v.items = <<>> THEN JsonDumps(v)
    ELSE LET parts == IF v.t = "list" THEN DumpElemsIndent(v.items, level + 1)
                      ELSE DumpMembersIndent(v.items, level + 1)
         IN  <<IF v.t = "list" THEN "[" ELSE "{">>
             \o NewLine(level + 1)
             \o Join(parts, <<",">> \o NewLine(level + 1))
             \o NewLine(level)
             \o <<IF v.t = "list" THEN "]" ELSE "}">>

----------------------------------------------------------------------------
(* Bounds of the model *)

\* worker threads, one per on_send
MaxWorkers == 2
\* ticks of the wall clock that stamps the entries
MaxClock == 2
\* largest limit handed to load_history in the checks of its contract
MaxLimit == 3
\* sequential saves of the flat-file retention run
MaxSaves == 205

(* Program constants *)

\* data = data[-200:]
JSON_KEEP == 200
\* populate_history and on_history_select call load_history(200)
UI_LIMIT == 200
\* the value of USE_SQLITE the module is imported with, under which init_db ran
InitBackend == TRUE

Workers == 1 .. MaxWorkers
Methods == {"GET", "POST", "PUT", "DELETE"}
\* status codes of the responses a server can return
StatusCodes == {200, 404, 500}

----------------------------------------------------------------------------
(* State *)

VARIABLES
    USE_SQLITE,       \* the module-level backend flag
    dbRows,           \* rows of the history table of history.db, by id
    dbSeq,            \* the last AUTOINCREMENT id handed out
    jsonExists,       \* HISTORY_JSON.exists()
    jsonData,         \* the entries of history.json, oldest first
    url_entry, method_var, headers_text, body_text,   \* request widgets
    search_var,       \* the history search box
    history_listbox,  \* rows shown in the history list
    lastUpdate,       \* the display update made last: its widget and its thread
    pc,               \* position of each worker thread
    loc,              \* locals of each worker's _send_request_thread
    call,             \* the requests.request call each worker made
    outcome,          \* how each worker's request cycle ended
    afterQueue,       \* callbacks handed to self.after, not yet run
    saved,            \* every entry handed to save_history_entry, in order
    now               \* the wall clock, in ticks

storeVars == <<USE_SQLITE, dbRows, dbSeq, jsonExists, jsonData>>
fieldVars == <<url_entry, method_var, headers_text, body_text>>
displayVars == <<history_listbox, lastUpdate>>
workerVars == <<pc, loc, call, outcome>>
vars == <<USE_SQLITE, dbRows, dbSeq, jsonExists, jsonData,
          url_entry, method_var, headers_text, body_text, search_var,
          history_listbox, lastUpdate,
          pc, loc, call, outcome, afterQueue, saved, now>>

----------------------------------------------------------------------------
(* History store *)

\* mutant of PyLastSlice: data[:n], which keeps the oldest entries
PyLastSlice_First(data, n) ==
    IF n >= Len(data) THEN data ELSE SubSeq(data, 1, n)

\* data[-n:] for n >= 0: Python reads -0 as 0, so data[-0:] is all of data
PyLastSlice(data, n) ==
    IF n = 0 \/ n >= Len(data) THEN data
    ELSE SubSeq(data, Len(data) - n + 1, Len(data))

\* reversed(xs)
Reverse(xs) == [i \in 1 .. Len(xs) |-> xs[Len(xs) - i + 1]]

\* the first n of xs, all of them when there are fewer (SQL LIMIT n)
Limit(xs, n) == IF n >= Len(xs) THEN xs ELSE SubSeq(xs, 1, n)

\* the body column of a row: json.dumps of a dict or list, str() otherwise
StoredBody(body) == IF IsStructured(body) THEN JsonDumps(body) ELSE PyStr(body)

\* mutant of TryJsonLoad: the stored text is handed back unparsed
TryJsonLoad_Raw(s) == VStr(s)

\* try_json_load
TryJsonLoad(s) ==
    IF s = <<>> THEN VStr(<<>>)
    ELSE IF JsonLoads(s).ok THEN JsonLoads(s).v ELSE VStr(s)

\* mutant of SelectedSqlite: the backend is the one picked at import
SelectedSqlite_AtImport == InitBackend

\* the backend a storage call works on: each of save_history_entry,
\* load_history and clear_history_storage tests the global flag when called
SelectedSqlite == USE_SQLITE

\* the row INSERT INTO history adds for entry
SqlRow(entry, id) ==
    [id |-> id, method |-> entry.method, url |-> entry.url,
     headers |-> JsonDumps(entry.headers), body |-> StoredBody(entry.body),
     status |-> entry.status, timestamp |-> entry.timestamp]

\* an entry as json.dumps writes it into history.json
JsonRecord(entry) ==
    [id |-> 0, method |-> entry.method, url |-> entry.url,
     headers |-> JsonDumps(entry.headers), body |-> JsonDumps(entry.body),
     status |-> entry.status, timestamp |-> entry.timestamp]

\* the item load_history builds from a row
SqlItem(r) ==
    [id |-> r.id, method |-> r.method, url |-> r.url,
     headers |-> IF r.headers # <<>> THEN JsonLoads(r.headers).v ELSE VDict(<<>>),
     body |-> TryJsonLoad(r.body),
     status |-> r.status, timestamp |-> r.timestamp]

\* the entry json.loads reads back from history.json
JsonItem(r) ==
    [id |-> 0, method |-> r.method, url |-> r.url,
     headers |-> JsonLoads(r.headers).v, body |-> JsonLoads(r.body).v,
     status |-> r.status, timestamp |-> r.timestamp]

\* save_history_entry, JSON branch, the read: data = [] or the file's list
JsonFileRead == IF jsonExists THEN jsonData ELSE <<>>

\* save_history_entry, JSON branch, the write: append and keep the last 200
JsonFileAppend(data, entry) == PyLastSlice(Append(data, JsonRecord(entry)), JSON_KEEP)

\* load_history(n) over a store holding rows (the table) and data (the file)
LoadFrom(rows, exists, data, n) ==
    IF SelectedSqlite
    THEN LET got == Limit(Reverse(rows), n)
         IN  [i \in 1 .. Len(got) |-> SqlItem(got[i])]
    ELSE IF ~exists THEN <<>>
         ELSE LET got == PyLastSlice(data, n)
              IN  Reverse([i \in 1 .. Len(got) |-> JsonItem(got[i])])

\* load_history(n) in the current state
LoadHistory(n) == LoadFrom(dbRows, jsonExists, jsonData, n)

\* mutant of ClearedJson: the file is written back as it was
ClearedJson_Kept == jsonData

\* clear_history_storage: the table after DELETE FROM history
ClearedRows == <<>>
\* clear_history_storage: the list "[]" written over an existing history.json
ClearedJson == <<>>

----------------------------------------------------------------------------
(* Request executor: the pure steps of _send_request_thread *)

\* timeout=30 of every requests.request call
TIMEOUT == 30

\* mutant of HeadersRejected: the isinstance(headers, dict) test is missing
HeadersRejected_AnyJson(hdr_input) ==
    /\ hdr_input # <<>>
    /\ ~JsonLoads(hdr_input).ok

\* the headers input is rejected: not JSON, or JSON that is no object
HeadersRejected(hdr_input) ==
    /\ hdr_input # <<>>
    /\ \/ ~JsonLoads(hdr_input).ok
       \/ ~IsDict(JsonLoads(hdr_input).v)

\* which validation stops the cycle, "none" when it goes on to the request
ValidationError(url, hdr_input) ==
    IF url = <<>> THEN "missing_url"
    ELSE IF HeadersRejected(hdr_input) THEN "invalid_headers"
    ELSE "none"

\* headers = {} or json.loads(hdr_input)
ParsedHeaders(hdr_input) ==
    IF hdr_input = <<>> THEN VDict(<<>>) ELSE JsonLoads(hdr_input).v

\* body_for_req: None, the parsed JSON, or the raw text when it is not JSON
BodyForReq(body_input) ==
    IF body_input = <<>> THEN VNull
    ELSE IF JsonLoads(body_input).ok THEN JsonLoads(body_input).v
    ELSE VStr(body_input)

\* mutant of BodyKind: the body is sent whatever the method
BodyKind_AnyMethod(method, body_for_req) ==
    IF IsStructured(body_for_req) THEN "json" ELSE "data"

\* how the body goes into requests.request: not at all, as json= or as data=
BodyKind(method, body_for_req) ==
    IF method \in {"GET", "DELETE"} THEN "none"
    ELSE IF IsStructured(body_for_req) THEN "json"
    ELSE "data"

NoCall ==
    [made |-> FALSE, method |-> "", url |-> <<>>, headers |-> VNull,
     kind |-> "none", value |-> VNull, timeout |-> 0]

\* the requests.request call of a cycle
RequestArgs(method, url, headers, body_for_req) ==
    [made |-> TRUE, method |-> method, url |-> url, headers |-> headers,
     kind |-> BodyKind(method, body_for_req),
     value |-> IF BodyKind(method, body_for_req) = "none" THEN VNull
               ELSE body_for_req,
     timeout |-> TIMEOUT]

(* What the requests library does with the call *)

RECURSIVE AllStrings(_)
AllStrings(xs) == xs = <<>> \/ (Head(xs).t = "str" /\ AllStrings(Tail(xs)))

\* data= can be put on the wire: text, or a falsy value (no body is sent);
\* a non-zero number or True is no bytes and no iterable
Sendable(c) == c.kind # "data" \/ c.value.t = "str" \/ ~Truthy(c.value)

\* the bytes of the request body, <<>> when the request has none
WireBody(c) ==
    CASE c.kind = "json" -> JsonDumps(c.value)
      [] c.kind = "data" /\ c.value.t = "str" -> c.value.s
      [] OTHER -> <<>>

\* json= makes requests set Content-Type: application/json
JsonContentType(c) == c.kind = "json"

\* the ways the call can end: a response with any status code, a
\* RequestException (connection, timeout, DNS, TLS, or a header value that is
\* no string), or the TypeError of an unsendable data= value, which is no
\* RequestException
RequestOutcomes(c) ==
    {[kind |-> "transport", status |-> 0]}
    \cup (IF ~AllStrings(c.headers.items) THEN {}
          ELSE IF Sendable(c)
               THEN {[kind |-> "response", status |-> st] : st \in StatusCodes}
               ELSE {[kind |-> "crash", status |-> 0]})

\* mutant of PersistsEntry: the except branch saves an entry too
PersistsEntry_OnError(kind) == kind \in {"response", "transport"}

\* save_history_entry sits in the try body after the request returned; the
\* except branch saves nothing
PersistsEntry(kind) == kind = "response"

----------------------------------------------------------------------------
(* History list *)

\* url[:60]
URL_SHOWN == 60
\* text if len(text) < 120 else text[:115] + "..."
TEXT_MAX == 120
TEXT_CUT == 115

DecDigit == <<"0", "1", "2", "3", "4", "5", "6", "7", "8", "9">>

RECURSIVE Dec(_)
\* the decimal digits of n
Dec(n) == IF n < 10 THEN <<DecDigit[n + 1]>> ELSE Append(Dec(n \div 10), DecDigit[(n % 10) + 1])

MethodText(m) ==
    CASE m = "GET" -> <<"G", "E", "T">>
      [] m = "POST" -> <<"P", "O", "S", "T">>
      [] m = "PUT" -> <<"P", "U", "T">>
      [] OTHER -> <<"D", "E", "L", "E", "T", "E">>

LowerChar(c) ==
    CASE c = "G" -> "g" [] c = "E" -> "e" [] c = "T" -> "t" [] c = "P" -> "p"
      [] c = "O" -> "o" [] c = "S" -> "s" [] c = "U" -> "u" [] c = "D" -> "d"
      [] c = "L" -> "l" [] OTHER -> c

\* str.lower()
Lower(s) == [i \in 1 .. Len(s) |-> LowerChar(s[i])]

\* k in s
Contains(s, k) == \E i \in 1 .. (Len(s) - Len(k) + 1) : SubSeq(s, i, i + Len(k) - 1) = k

\* f"{timestamp} - {method} {url[:60]}"
RowText(it) ==
    Dec(it.timestamp) \o <<" ", "-", " ">> \o MethodText(it.method) \o <<" ">>
    \o Limit(it.url, URL_SHOWN)

DisplayText(text) ==
    IF Len(text) < TEXT_MAX THEN text ELSE Limit(text, TEXT_CUT) \o <<".", ".", ".">>

RECURSIVE Rows(_, _)
\* the rows populate_history inserts for items under keyword
Rows(items, keyword) ==
    IF items = <<>> THEN <<>>
    ELSE IF keyword # <<>> /\ ~Contains(Lower(RowText(Head(items))), keyword)
         THEN Rows(Tail(items), keyword)
    ELSE <<DisplayText(RowText(Head(items)))>> \o Rows(Tail(items), keyword)

\* the list populate_history leaves on screen, given what load_history returned
PopulatedList(items, keyword_input) == Rows(items, Lower(Strip(keyword_input)))

----------------------------------------------------------------------------
(* Inputs the user can type *)

T_obj == <<"{", "\"", "a", "\"", ":", "\"", "b", "\"", "}">>
T_objnum == <<"{", "\"", "a", "\"", ":", "1", "}">>
T_empty_obj == <<"{", "}">>
T_arr == <<"[", "1", ",", "2", "]">>
T_num == <<"1">>
T_zero == <<"0">>
T_quoted == <<"\"", "a", "\"">>
T_quoted_num == <<"\"", "1", "\"">>
T_null == <<"n", "u", "l", "l">>
T_true == <<"t", "r", "u", "e">>
T_bad == <<"{", "b">>
T_plain == <<"a", "b">>
T_padded == <<" ", "a", " ">>
T_blank == <<" ">>
T_url == <<"u">>
T_url_padded == <<" ", "u", " ">>

Urls == {<<>>, T_blank, T_url_padded}
HeaderInputs ==
    {<<>>, T_blank, T_obj, T_objnum, T_empty_obj, T_arr, T_num, T_quoted, T_true, T_null, T_bad}
BodyInputs ==
    {<<>>, T_obj, T_empty_obj, T_arr, T_num, T_zero, T_quoted, T_quoted_num,
     T_null, T_true, T_bad, T_plain, T_padded}
Keywords == {<<>>, <<"p">>}

Fields(u, m, h, b) == [url |-> u, method |-> m, headers |-> h, body |-> b]

\* the requests the user types in the concurrent specification
Presets ==
    {Fields(T_url, "POST", T_obj, T_arr),
     Fields(T_url, "PUT", T_bad, <<>>),
     Fields(T_url, "POST", <<>>, T_num)}

\* the requests the user types in the history specification
HistoryPresets ==
    {Fields(T_url, "GET", <<>>, T_plain),
     Fields(T_url, "POST", T_obj, T_arr)}

----------------------------------------------------------------------------
(* Initial state: the window as __init__ leaves it, over an empty data     *)
(* directory in which init_db has created the history table                *)

IdleLoc ==
    [url |-> <<>>, method |-> "", hdr_input |-> <<>>, body_input |-> <<>>,
     headers |-> VNull, body_for_req |-> VNull, status |-> 0, timestamp |-> 0,
     data |-> <<>>]

\* a display update: the widget written and the thread that wrote it
Update(widget, thread) == [widget |-> widget, by |-> thread]

Init ==
    /\ USE_SQLITE = InitBackend
    /\ dbRows = <<>>
    /\ dbSeq = 0
    /\ jsonExists = FALSE
    /\ jsonData = <<>>
    /\ url_entry = <<>>
    /\ method_var = "GET"
    /\ headers_text = <<>>
    /\ body_text = <<>>
    /\ search_var = <<>>
    /\ history_listbox = <<>>
    /\ lastUpdate = Update("status", "ui")
    /\ pc = [w \in Workers |-> "idle"]
    /\ loc = [w \in Workers |-> IdleLoc]
    /\ call = [w \in Workers |-> NoCall]
    /\ outcome = [w \in Workers |-> "none"]
    /\ afterQueue = <<>>
    /\ saved = <<>>
    /\ now = 0

----------------------------------------------------------------------------
(* Worker thread: _send_request_thread *)

\* the entry dict built after the response
Entry(l) ==
    [method |-> l.method, url |-> l.url, headers |-> l.headers,
     body |-> l.body_for_req, status |-> l.status, timestamp |-> l.timestamp]

\* the display update a worker makes itself when validation ends in err:
\* messagebox.showwarning for a missing URL, status_var.set("Sending...")
\* when the cycle goes on; the headers error goes through safe_show_error
DirectUpdate(err) ==
    CASE err = "missing_url" -> {Update("dialog", "worker")}
      [] err = "none" -> {Update("status", "worker")}
      [] OTHER -> {}

\* lines 360-388: read the widgets, validate, parse, "Sending..."
WorkerStart(w) ==
    /\ pc[w] = "start"
    /\ LET url == Strip(url_entry)
           hdr_input == Strip(headers_text)
           body_input == Strip(body_text)
           err == ValidationError(url, hdr_input)
       IN  /\ loc' = [loc EXCEPT ![w] =
                  [IdleLoc EXCEPT !.url = url, !.method = method_var,
                       !.hdr_input = hdr_input, !.body_input = body_input,
                       !.headers = IF err = "none" THEN ParsedHeaders(hdr_input) ELSE VNull,
                       !.body_for_req = IF err = "none" THEN BodyForReq(body_input) ELSE VNull]]
           /\ pc' = [pc EXCEPT ![w] = IF err = "none" THEN "request" ELSE "done"]
           /\ outcome' = [outcome EXCEPT ![w] = IF err = "none" THEN "none" ELSE "validation"]
           /\ lastUpdate' \in (IF DirectUpdate(err) = {} THEN {lastUpdate} ELSE DirectUpdate(err))
           \* safe_show_error hands the dialog to the UI thread
           /\ afterQueue' = IF err = "invalid_headers"
                            THEN Append(afterQueue, "showerror")
                            ELSE afterQueue
    /\ UNCHANGED <<storeVars, fieldVars, search_var, history_listbox, call, saved, now>>

\* lines 389-423 and 430-433: the request and what follows its outcome
WorkerRequest(w) ==
    /\ pc[w] = "request"
    /\ LET c == RequestArgs(loc[w].method, loc[w].url, loc[w].headers, loc[w].body_for_req)
       IN  /\ call' = [call EXCEPT ![w] = c]
           /\ \E o \in RequestOutcomes(c), t \in {now, now + 1} :
                /\ t <= MaxClock
                /\ outcome' = [outcome EXCEPT ![w] = o.kind]
                /\ IF PersistsEntry(o.kind)
                   THEN /\ pc' = [pc EXCEPT ![w] = "save"]
                        /\ loc' = [loc EXCEPT ![w].status = o.status, ![w].timestamp = t]
                        /\ now' = t
                   ELSE /\ pc' = [pc EXCEPT ![w] = IF o.kind = "crash" THEN "crashed" ELSE "done"]
                        /\ t = now
                        /\ UNCHANGED <<loc, now>>
                /\ afterQueue' =
                     CASE o.kind = "response" -> Append(afterQueue, "update_response_ui")
                       [] o.kind = "transport" -> afterQueue \o <<"showerror", "status_set">>
                       [] OTHER -> afterQueue
    /\ UNCHANGED <<storeVars, fieldVars, search_var, displayVars, saved>>

\* save_history_entry(entry), lines 72-86 and 89-94, then the reload hand-off
\* of line 428 when the save is done
WorkerSave(w) ==
    /\ pc[w] = "save"
    /\ saved' = Append(saved, Entry(loc[w]))
    /\ IF SelectedSqlite
       THEN /\ dbRows' = Append(dbRows, SqlRow(Entry(loc[w]), dbSeq + 1))
            /\ dbSeq' = dbSeq + 1
            /\ pc' = [pc EXCEPT ![w] = "done"]
            /\ afterQueue' = Append(afterQueue, "populate_history")
            /\ UNCHANGED loc
       ELSE /\ loc' = [loc EXCEPT ![w].data = JsonFileRead]
            /\ pc' = [pc EXCEPT ![w] = "save_write"]
            /\ UNCHANGED <<dbRows, dbSeq, afterQueue>>
    /\ UNCHANGED <<USE_SQLITE, jsonExists, jsonData, fieldVars, search_var,
                   displayVars, call, outcome, now>>

\* mutant of WorkerSaveWrite: the file is read again under a lock at the write
WorkerSaveWrite_Locked(w) ==
    /\ pc[w] = "save_write"
    /\ jsonExists' = TRUE
    /\ jsonData' = JsonFileAppend(JsonFileRead, Entry(loc[w]))
    /\ loc' = [loc EXCEPT ![w].data = <<>>]
    /\ pc' = [pc EXCEPT ![w] = "done"]
    /\ afterQueue' = Append(afterQueue, "populate_history")
    /\ UNCHANGED <<USE_SQLITE, dbRows, dbSeq, fieldVars, search_var, displayVars,
                   call, outcome, saved, now>>

\* save_history_entry, lines 95-98: append, truncate, write the file back
WorkerSaveWrite(w) ==
    /\ pc[w] = "save_write"
    /\ jsonExists' = TRUE
    /\ jsonData' = JsonFileAppend(loc[w].data, Entry(loc[w]))
    /\ loc' = [loc EXCEPT ![w].data = <<>>]
    /\ pc' = [pc EXCEPT ![w] = "done"]
    /\ afterQueue' = Append(afterQueue, "populate_history")
    /\ UNCHANGED <<USE_SQLITE, dbRows, dbSeq, fieldVars, search_var, displayVars,
                   call, outcome, saved, now>>

WorkerStep(w) ==
    WorkerStart(w) \/ WorkerRequest(w) \/ WorkerSave(w) \/ WorkerSaveWrite(w)

----------------------------------------------------------------------------
(* Interactive thread *)

\* the user types one of the requests of S into the widgets
UserEdit(S) ==
    \E f \in S :
        /\ url_entry' = f.url
        /\ method_var' = f.method
        /\ headers_text' = f.headers
        /\ body_text' = f.body
        /\ UNCHANGED <<storeVars, search_var, displayVars, workerVars, afterQueue, saved, now>>

\* the user types into the search box: the write trace runs populate_history
UserSearch ==
    \E k \in Keywords :
        /\ search_var' = k
        /\ history_listbox' = PopulatedList(LoadHistory(UI_LIMIT), k)
        /\ lastUpdate' = Update("status", "ui")
        /\ UNCHANGED <<storeVars, fieldVars, workerVars, afterQueue, saved, now>>

\* on_send: a new daemon thread runs _send_request_thread
OnSend ==
    \E w \in Workers :
        /\ pc[w] = "idle"
        /\ \A v \in Workers : v < w => pc[v] # "idle"
        /\ pc' = [pc EXCEPT ![w] = "start"]
        /\ UNCHANGED <<storeVars, fieldVars, search_var, displayVars, loc, call, outcome,
                       afterQueue, saved, now>>

\* toggle_storage: flip the flag, tell the user
ToggleStorage ==
    /\ USE_SQLITE' = ~USE_SQLITE
    /\ lastUpdate' = Update("dialog", "ui")
    /\ UNCHANGED <<dbRows, dbSeq, jsonExists, jsonData, fieldVars, search_var,
                   history_listbox, workerVars, afterQueue, saved, now>>

\* on_reload_history: populate_history, which ends on the status label
OnReloadHistory ==
    /\ history_listbox' = PopulatedList(LoadHistory(UI_LIMIT), search_var)
    /\ lastUpdate' = Update("status", "ui")
    /\ UNCHANGED <<storeVars, fieldVars, search_var, workerVars, afterQueue, saved, now>>

\* clear_history_storage: the table it leaves
RowsAfterClear == IF SelectedSqlite THEN ClearedRows ELSE dbRows

\* clear_history_storage: the file it leaves (a missing file stays missing)
DataAfterClear == IF ~SelectedSqlite /\ jsonExists THEN ClearedJson ELSE jsonData

\* on_clear_history, the user answering yes to the askyesno box:
\* clear_history_storage, populate_history, "History cleared"
OnClearHistory ==
    /\ dbRows' = RowsAfterClear
    /\ jsonData' = DataAfterClear
    /\ history_listbox' =
         PopulatedList(LoadFrom(RowsAfterClear, jsonExists, DataAfterClear, UI_LIMIT), search_var)
    /\ lastUpdate' = Update("status", "ui")
    /\ UNCHANGED <<USE_SQLITE, dbSeq, jsonExists, fieldVars, search_var, workerVars,
                   afterQueue, saved, now>>

\* on_history_select with row idx of the list selected (rows count from 1)
HistorySelect(idx) ==
    LET items == LoadHistory(UI_LIMIT)
        entry == items[idx]
        headers == IF Truthy(entry.headers) THEN entry.headers ELSE VDict(<<>>)
    IN  /\ idx <= Len(items)
        /\ method_var' = entry.method
        /\ url_entry' = entry.url
        /\ headers_text' = JsonDumpsIndent(headers, 0)
        /\ body_text' = IF IsStructured(entry.body) THEN JsonDumpsIndent(entry.body, 0)
                        ELSE PyStr(entry.body)
        /\ lastUpdate' = Update("status", "ui")
        /\ UNCHANGED <<storeVars, search_var, history_listbox, workerVars,
                       afterQueue, saved, now>>

\* on_history_select: the user selects one of the rows shown
OnHistorySelect == \E idx \in 1 .. Len(history_listbox) : HistorySelect(idx)

\* the widget a callback handed to self.after writes last
CallbackWidget(f) ==
    CASE f = "showerror" -> "dialog"
      [] OTHER -> "status"

\* the event loop runs the oldest callback handed to self.after:
\* _update_response_ui, populate_history, messagebox.showerror or status_var.set
RunAfter ==
    /\ afterQueue # <<>>
    /\ afterQueue' = Tail(afterQueue)
    /\ history_listbox' = IF Head(afterQueue) = "populate_history"
                          THEN PopulatedList(LoadHistory(UI_LIMIT), search_var)
                          ELSE history_listbox
    /\ lastUpdate' = Update(CallbackWidget(Head(afterQueue)), "ui")
    /\ UNCHANGED <<storeVars, fieldVars, search_var, workerVars, saved, now>>

\* no worker thread is running
Quiet == \A w \in Workers : pc[w] \in {"idle", "done", "crashed"}

----------------------------------------------------------------------------
(* Specifications *)

\* the window with its worker threads running concurrently
Next ==
    \/ UserEdit(Presets)
    \/ OnSend
    \/ ToggleStorage
    \/ RunAfter
    \/ \E w \in Workers : WorkerStep(w)

Spec == Init /\ [][Next]_vars

\* the environment of the history specification: the server answers 200 and
\* the clock ticks between two responses, so that entries differ by timestamp
CalmServer(w) ==
    /\ loc'[w].status \in {0, 200}
    /\ pc'[w] = "save" /\ pc[w] # "save" => now' = now + 1

\* the history panel: one request cycle at a time, and every handler of the
\* history list
NextHistory ==
    \/ UserEdit(HistoryPresets)
    \/ UserSearch
    \/ (Quiet /\ OnSend)
    \/ ToggleStorage
    \/ OnReloadHistory
    \/ OnClearHistory
    \/ OnHistorySelect
    \/ RunAfter
    \/ \E w \in Workers : WorkerStep(w) /\ CalmServer(w)

SpecHistory == Init /\ [][NextHistory]_vars

\* the request executor over the inputs the user can type: one request cycle
\* from every combination of URL, method, headers and body, on either backend
InitExec ==
    /\ USE_SQLITE \in BOOLEAN
    /\ dbRows = <<>>
    /\ dbSeq = 0
    /\ jsonExists = FALSE
    /\ jsonData = <<>>
    /\ url_entry \in Urls
    /\ method_var \in Methods
    /\ headers_text \in HeaderInputs
    /\ body_text \in BodyInputs
    /\ search_var = <<>>
    /\ history_listbox = <<>>
    /\ lastUpdate = Update(IF USE_SQLITE = InitBackend THEN "status" ELSE "dialog", "ui")
    /\ pc = [w \in Workers |-> "idle"]
    /\ loc = [w \in Workers |-> IdleLoc]
    /\ call = [w \in Workers |-> NoCall]
    /\ outcome = [w \in Workers |-> "none"]
    /\ afterQueue = <<>>
    /\ saved = <<>>
    /\ now = 0

NextExec ==
    \/ (pc[1] = "idle" /\ OnSend)
    \/ RunAfter
    \/ \E w \in Workers : WorkerStep(w)

SpecExec == InitExec /\ [][NextExec]_vars

\* save_history_entry called MaxSaves times in a row, each entry a second
\* after the one before, on either backend
InitCap ==
    /\ USE_SQLITE \in BOOLEAN
    /\ dbRows = <<>>
    /\ dbSeq = 0
    /\ jsonExists = FALSE
    /\ jsonData = <<>>
    /\ url_entry = <<>>
    /\ method_var = "GET"
    /\ headers_text = <<>>
    /\ body_text = <<>>
    /\ search_var = <<>>
    /\ history_listbox = <<>>
    /\ lastUpdate = Update(IF USE_SQLITE = InitBackend THEN "status" ELSE "dialog", "ui")
    /\ pc = [w \in Workers |-> "idle"]
    /\ loc = [w \in Workers |-> IdleLoc]
    /\ call = [w \in Workers |-> NoCall]
    /\ outcome = [w \in Workers |-> "none"]
    /\ afterQueue = <<>>
    /\ saved = <<>>
    /\ now = 0

\* the entry of the retention run saved at time t
CapEntry(t) ==
    [method |-> "GET", url |-> T_url, headers |-> VDict(<<>>), body |-> VNull,
     status |-> 200, timestamp |-> t]

\* save_history_entry(entry) run from its first line to its last
SaveHistoryEntry ==
    /\ Len(saved) < MaxSaves
    /\ now' = now + 1
    /\ saved' = Append(saved, CapEntry(now + 1))
    /\ IF SelectedSqlite
       THEN /\ dbRows' = Append(dbRows, SqlRow(CapEntry(now + 1), dbSeq + 1))
            /\ dbSeq' = dbSeq + 1
            /\ UNCHANGED <<jsonExists, jsonData>>
       ELSE /\ jsonExists' = TRUE
            /\ jsonData' = JsonFileAppend(JsonFileRead, CapEntry(now + 1))
            /\ UNCHANGED <<dbRows, dbSeq>>
    /\ UNCHANGED <<USE_SQLITE, fieldVars, search_var, displayVars, workerVars, afterQueue>>

SpecCap == InitCap /\ [][SaveHistoryEntry]_vars

----------------------------------------------------------------------------
(* Claims *)

\* an item of load_history as the entry dict that was saved
ItemEntry(it) ==
    [method |-> it.method, url |-> it.url, headers |-> it.headers,
     body |-> it.body, status |-> it.status, timestamp |-> it.timestamp]

\* C1: at every moment the entries handed to save_history_entry are as many
\* as the cycles that got a response and are past their save; a cycle that
\* ended in a validation failure, a transport failure or an uncaught error
\* has handed over none.
C1_SavedIffResponse ==
    /\ Len(saved) = Cardinality({w \in Workers : outcome[w] = "response" /\ pc[w] # "save"})
    /\ \A w \in Workers : outcome[w] # "response" => pc[w] \notin {"save", "save_write"}

\* C1 witness: both cycles are over, one got a 404 and was saved, the other
\* failed in transport and was not
C1_Witness ==
    /\ \A w \in Workers : pc[w] = "done"
    /\ \E w \in Workers : outcome[w] = "response" /\ loc[w].status = 404
    /\ \E w \in Workers : outcome[w] = "transport"
    /\ Len(saved) = 1

\* the rejection rule of the claim, on the trimmed inputs a worker read
C2_MustReject(l) ==
    \/ l.url = <<>>
    \/ /\ l.hdr_input # <<>>
       /\ \/ ~JsonLoads(l.hdr_input).ok
          \/ JsonLoads(l.hdr_input).v.t # "dict"

\* C2: a cycle is rejected as a validation error, with no request made and
\* nothing saved, exactly when its trimmed URL is empty or its non-empty
\* headers input is no JSON object; every other cycle goes on to the request
\* with the parsed object, or {} for empty headers, as its header mapping.
C2_ValidationExactly ==
    \A w \in Workers :
        pc[w] \notin {"idle", "start"} =>
            /\ (outcome[w] = "validation") <=> C2_MustReject(loc[w])
            /\ outcome[w] = "validation" =>
                   /\ pc[w] = "done"
                   /\ ~call[w].made
                   /\ saved = <<>> /\ dbRows = <<>> /\ ~jsonExists
            /\ outcome[w] # "validation" =>
                   /\ loc[w].headers = IF loc[w].hdr_input = <<>> THEN VDict(<<>>)
                                       ELSE JsonLoads(loc[w].hdr_input).v
                   /\ pc[w] # "request" => call[w].made /\ call[w].headers = loc[w].headers

\* C2 witness: a cycle with a URL was rejected for headers that are a JSON array
C2_Witness ==
    \E w \in Workers :
        /\ outcome[w] = "validation"
        /\ loc[w].url # <<>>
        /\ loc[w].hdr_input = T_arr

\* C3: for POST and PUT a body input that parses as an object or array is
\* sent as its JSON encoding with a JSON content type, and every other body
\* input, JSON scalars included, is sent as the literal (trimmed) input text.
C3_LiteralUnlessStructured ==
    \A w \in Workers :
        call[w].made /\ call[w].method \in {"POST", "PUT"} =>
            LET parsed == JsonLoads(loc[w].body_input)
            IN  IF parsed.ok /\ IsStructured(parsed.v)
                THEN /\ JsonContentType(call[w])
                     /\ WireBody(call[w]) = JsonDumps(parsed.v)
                ELSE /\ ~JsonContentType(call[w])
                     /\ Sendable(call[w])
                     /\ WireBody(call[w]) = loc[w].body_input

\* C4: a GET or DELETE request carries no body whatever was typed: the call
\* has the method, the URL, the headers and the timeout only.
C4_NoBodyForGetDelete ==
    \A w \in Workers :
        call[w].made /\ loc[w].method \in {"GET", "DELETE"} =>
            /\ call[w].kind = "none"
            /\ call[w].value = VNull
            /\ WireBody(call[w]) = <<>>
            /\ call[w].method = loc[w].method
            /\ call[w].url = loc[w].url
            /\ call[w].headers = loc[w].headers
            /\ call[w].timeout = TIMEOUT

\* C4 witness: a GET was sent with a JSON object typed into the body editor
C4_Witness ==
    \E w \in Workers :
        /\ call[w].made
        /\ loc[w].method = "GET"
        /\ loc[w].body_input = T_obj

\* the entries of saved the flat file has to hold: the last 200
C5_Kept ==
    IF Len(saved) <= JSON_KEEP THEN saved
    ELSE [i \in 1 .. JSON_KEEP |-> saved[Len(saved) - JSON_KEEP + i]]

\* C5: on the flat-file backend the file holds at most 200 entries, the
\* most recently saved ones in insertion order, and load_history returns
\* them most recent first; after 205 saves they are saves 6..205.
C5_FlatFileKeepsLast200 ==
    ~USE_SQLITE =>
        /\ Len(jsonData) <= JSON_KEEP
        /\ Len(jsonData) = Len(C5_Kept)
        /\ \A i \in 1 .. Len(jsonData) : ItemEntry(JsonItem(jsonData[i])) = C5_Kept[i]
        /\ LET items == LoadHistory(UI_LIMIT)
           IN  /\ Len(items) = Len(C5_Kept)
               /\ \A i \in 1 .. Len(items) :
                      ItemEntry(items[i]) = C5_Kept[Len(C5_Kept) - i + 1]
        /\ Len(saved) = 205 =>
               /\ Len(jsonData) = 200
               /\ \A i \in 1 .. 200 : jsonData[i].timestamp = i + 5
               /\ \A i \in 1 .. 200 : LoadHistory(UI_LIMIT)[i].timestamp = 206 - i

\* C5 witness: 205 entries were saved to the flat file and the first 5 are gone
C5_Witness ==
    /\ ~USE_SQLITE
    /\ Len(saved) = 205
    /\ Len(jsonData) = 200
    /\ jsonData[1].timestamp = 6

\* the entries of the selected store, most recent first
C6_Stored ==
    IF USE_SQLITE THEN Reverse(dbRows)
    ELSE IF jsonExists THEN Reverse(jsonData) ELSE <<>>

\* C6: on both backends load_history(n) returns at most n entries, the n
\* most recently saved ones, most recent first, for every n from 0 up.
C6_LoadAtMostLimit ==
    \A n \in 0 .. MaxLimit :
        LET items == LoadHistory(n)
        IN  /\ Len(items) <= n
            /\ Len(items) = IF n <= Len(C6_Stored) THEN n ELSE Len(C6_Stored)
            /\ \A i \in 1 .. Len(items) : items[i].timestamp = C6_Stored[i].timestamp

\* C7: on the relational backend an entry saved with an object or array
\* body loads with a body equal to it, and an entry saved with a text body
\* that is no JSON loads with the same text.
C7_BodyRoundTrip ==
    USE_SQLITE /\ Len(dbRows) = Len(saved) =>
        LET items == LoadHistory(UI_LIMIT)
        IN  \A i \in 1 .. Len(saved) :
                LET body == saved[i].body
                    got == items[Len(saved) - i + 1].body
                IN  /\ IsStructured(body) => got = body
                    /\ body.t = "str" /\ ~JsonLoads(body.s).ok => got = body

\* C7 witness: an entry whose body is the object {"a": "b"} is in the table
C7_Witness ==
    /\ USE_SQLITE
    /\ Len(dbRows) = 1
    /\ Len(saved) = 1
    /\ saved[1].body = VDict(<<VStr(<<"a">>), VStr(<<"b">>)>>)

\* C8: on both backends, whatever the store held, the load_history that
\* follows clear_history_storage returns nothing, and clearing once more
\* leaves the store as it is.
C8_ClearThenLoadEmpty ==
    [][OnClearHistory =>
          /\ \A n \in 0 .. MaxLimit : LoadHistory(n)' = <<>>
          /\ LoadHistory(UI_LIMIT)' = <<>>
          /\ history_listbox' = <<>>
          /\ RowsAfterClear' = dbRows'
          /\ DataAfterClear' = jsonData']_vars

\* C8 witness: the flat file was written by a save and has been cleared
C8_Witness ==
    /\ ~USE_SQLITE
    /\ jsonExists
    /\ jsonData = <<>>
    /\ saved # <<>>
    /\ LoadHistory(UI_LIMIT) = <<>>

\* a step leaves the flat file alone / leaves the table alone
C9_OnlySqlite == UNCHANGED <<jsonExists, jsonData>>
C9_OnlyJson == UNCHANGED <<dbRows, dbSeq>>

\* the steps of a storage call that write
C9_StorageStep ==
    \/ OnClearHistory
    \/ \E w \in Workers : WorkerSave(w) \/ WorkerSaveWrite(w)

\* C9 as claimed: toggle_storage moves no entry, and until the store is
\* initialized again (which no handler does) save, load and clear keep
\* acting on the backend selected before the toggle, the one of the import.
C9_ToggleWaitsForInit ==
    [][/\ ToggleStorage => UNCHANGED <<dbRows, dbSeq, jsonExists, jsonData>>
       /\ C9_StorageStep => IF InitBackend THEN C9_OnlySqlite ELSE C9_OnlyJson]_vars

\* C9 as amended: toggle_storage moves no entry and flips the flag; from then
\* on each save, load and clear acts on the backend the flag names when the
\* call tests it, with no initialization in between.
C9_ToggleImmediate ==
    [][/\ ToggleStorage =>
            /\ UNCHANGED <<dbRows, dbSeq, jsonExists, jsonData>>
            /\ USE_SQLITE' = ~USE_SQLITE
       /\ \A w \in Workers :
            /\ WorkerSave(w) =>
                 IF USE_SQLITE
                 THEN /\ C9_OnlySqlite
                      /\ Len(dbRows') = Len(dbRows) + 1
                      /\ pc'[w] = "done"
                 ELSE /\ C9_OnlyJson
                      /\ pc'[w] = "save_write"
            /\ WorkerSaveWrite(w) =>
                 /\ C9_OnlyJson
                 /\ jsonExists'
                 /\ jsonData' # <<>>
       /\ OnClearHistory =>
            IF USE_SQLITE
            THEN C9_OnlySqlite /\ dbRows' = <<>>
            ELSE C9_OnlyJson /\ (jsonExists => jsonData' = <<>>)
       /\ OnReloadHistory /\ search_var = <<>> =>
            Len(history_listbox') = Len(C6_Stored)]_vars

\* C9 witness: after a toggle the flat file holds one entry and the table
\* another, neither copied into the other store
C9_Witness ==
    /\ ~USE_SQLITE
    /\ Len(dbRows) = 1
    /\ Len(jsonData) = 1
    /\ dbRows[1].timestamp # jsonData[1].timestamp

\* C10: every display update is made by the interactive thread.
C10_UpdatesOnUiThread == lastUpdate.by = "ui"

\* C11: in every interleaving of the workers the table keeps every row: no
\* step removes or changes one, a save on the relational backend adds the
\* row of its entry in one step, and while nothing was written to the flat
\* file the table holds every saved entry in the order of the saves; a save
\* on the flat file is a read and a later write of the list it read plus
\* its entry, whatever was written to the file in between.
C11_SqliteKeepsFlatFileOverwrites ==
    [][/\ Len(dbRows') >= Len(dbRows)
       /\ \A i \in 1 .. Len(dbRows) : dbRows'[i] = dbRows[i]
       /\ \A w \in Workers :
            /\ WorkerSave(w) /\ USE_SQLITE =>
                 /\ Len(dbRows') = Len(dbRows) + 1
                 /\ dbRows'[Len(dbRows')].timestamp = loc[w].timestamp
                 /\ dbRows'[Len(dbRows')].method = loc[w].method
                 /\ dbRows'[Len(dbRows')].id \notin {dbRows[i].id : i \in 1 .. Len(dbRows)}
                 /\ pc'[w] = "done"
            /\ WorkerSave(w) /\ ~USE_SQLITE =>
                 /\ loc'[w].data = (IF jsonExists THEN jsonData ELSE <<>>)
                 /\ UNCHANGED <<jsonExists, jsonData>>
                 /\ pc'[w] = "save_write"
            /\ WorkerSaveWrite(w) =>
                 jsonData' = Append(loc[w].data, JsonRecord(Entry(loc[w])))
       /\ ~jsonExists /\ (\A w \in Workers : pc[w] # "save_write") =>
            /\ Len(dbRows) = Len(saved)
            /\ \A i \in 1 .. Len(saved) :
                 ItemEntry(SqlItem(dbRows[i])).timestamp = saved[i].timestamp]_vars

\* C11 witness: two saves on the flat file have both returned and the file
\* holds one entry
C11_Witness ==
    /\ \A w \in Workers : pc[w] = "done" /\ outcome[w] = "response"
    /\ Len(saved) = 2
    /\ dbRows = <<>>
    /\ jsonExists
    /\ Len(jsonData) = 1

\* C12: selecting row idx of the list loads the method, URL, headers and body
\* of the entry whose text row idx shows.
C12_SelectLoadsDisplayedRow ==
    [][\A idx \in 1 .. Len(history_listbox) :
          HistorySelect(idx) =>
              \E k \in 1 .. Len(saved) :
                  LET e == saved[k]
                  IN  /\ history_listbox[idx] = DisplayText(RowText(e))
                      /\ method_var' = e.method
                      /\ url_entry' = e.url
                      /\ headers_text' =
                           JsonDumpsIndent(IF Truthy(e.headers) THEN e.headers ELSE VDict(<<>>), 0)
                      /\ body_text' = IF IsStructured(e.body) THEN JsonDumpsIndent(e.body, 0)
                                      ELSE PyStr(e.body)]_vars

====
